---- MODULE Spec2Model ----
(***************************************************************************)
(* A model of socketplane's ovs/bridge.go: gateway selection, the shared   *)
(* bridge's lifecycle, peer tunnels, per-container connections and the     *)
(* hardware-address derivation.                                            *)
(*                                                                         *)
(* Text is modelled as a sequence of tokens: the CIDR "10.1.42.1/16" is    *)
(* <<10, 1, 42, 1, 16>>, the dotted address "10.1.42.1" is <<10,1,42,1>>,  *)
(* the empty string is << >>.  net.IP is a 4-tuple or a 16-tuple of bytes, *)
(* the nil IP is << >>.  *net.IPNet is [ip |-> 4-tuple, bits |-> 0..32].   *)
(***************************************************************************)
EXTENDS Integers, Sequences, FiniteSets, TLC

\* ------------------------------------------------------------------ bounds
\* how many entries of RouteUniverse the host's initial route table draws on
NumRoutes == 7
\* how many byte values the hardware-address checks sample
NumBytes == 3
\* how many calls of the package's entry points one behaviour makes
MaxCalls == 3
\* how many calls a behaviour with two concurrent callers makes
MaxParCalls == 2
\* how many addresses of the bridge's subnet the address allocator manages
PoolSize == 2

\* ------------------------------------------------------- values and errors
NoErr == "nil"
EmptyStr == << >>
NilIP == << >>
NilNet == [ip |-> << >>, bits |-> 0]
mtu == 1514
defaultBridgeName == "docker0-ovs"

\* -------------------------------------------------------- net (Go library)
RECURSIVE Pow2(_)
Pow2(n) == IF n = 0 THEN 1 ELSE 2 * Pow2(n - 1)

Min(a, b) == IF a < b THEN a ELSE b
Max(a, b) == IF a > b THEN a ELSE b

\* the byte b with only its k high bits kept
MaskByte(b, k) == b - (b % Pow2(8 - k))

\* ip.Mask(net.CIDRMask(bits, 32))
MaskIP(ip, bits) ==
    [i \in 1..4 |-> MaskByte(ip[i], Max(0, Min(8, bits - 8 * (i - 1))))]

\* net.ParseCIDR on "a.b.c.d/n": four octets 0..255 and a prefix 0..32
WellFormedCIDR(s) ==
    /\ Len(s) = 5
    /\ \A i \in 1..4 : s[i] \in 0..255
    /\ s[5] \in 0..32

ParseCIDR(s) ==
    IF WellFormedCIDR(s)
    THEN [err |-> NoErr,
          ip  |-> SubSeq(s, 1, 4),
          net |-> [ip |-> MaskIP(SubSeq(s, 1, 4), s[5]), bits |-> s[5]]]
    ELSE [err |-> "invalid CIDR address", ip |-> NilIP, net |-> NilNet]

\* (*net.IPNet).Contains
NetContains(n, ip) == MaskIP(ip, n.bits) = n.ip

\* net.IP.String(); the nil IP prints as "<nil>", modelled as <<-1>>
IPString(ip) == IF ip = NilIP THEN <<-1>> ELSE ip

\* mutant: the interface address prints as its network, "a.b.0.0/n"
AddrString_network(ip, bits) == MaskIP(ip, bits) \o <<bits>>

\* (*net.IPNet).String() of an interface address: "a.b.c.d/n"
AddrString(ip, bits) == ip \o <<bits>>

\* net.IP.To4(): a 4-byte IP as it is, an IPv4-mapped 16-byte IP's last four
\* bytes, nil for anything else
To4(ip) ==
    IF Len(ip) = 4 THEN ip
    ELSE IF /\ Len(ip) = 16
            /\ \A i \in 1..10 : ip[i] = 0
            /\ ip[11] = 255 /\ ip[12] = 255
         THEN SubSeq(ip, 13, 16)
         ELSE NilIP

\* ------------------------------------------------------------ gatewayAddrs
gatewayAddrs ==
    << <<10, 1, 42, 1, 16>>,
       <<10, 42, 42, 1, 16>>,
       <<172, 16, 42, 1, 24>>,
       <<172, 16, 43, 1, 24>>,
       <<172, 16, 44, 1, 24>>,
       <<10, 0, 42, 1, 24>>,
       <<10, 0, 43, 1, 24>>,
       <<172, 17, 42, 1, 16>>,
       <<10, 0, 42, 1, 16>>,
       <<192, 168, 42, 1, 24>>,
       <<192, 168, 43, 1, 24>>,
       <<192, 168, 44, 1, 24>> >>

\* ------------------------------------------------------- route overlap
\* The routes a host may have, in the order the bounds draw on them.
RouteUniverse ==
    << [ip |-> <<10, 1, 0, 0>>,     bits |-> 16],
       [ip |-> <<10, 42, 0, 0>>,    bits |-> 16],
       [ip |-> <<172, 16, 0, 0>>,   bits |-> 16],
       [ip |-> <<10, 0, 42, 0>>,    bits |-> 24],
       [ip |-> <<10, 0, 43, 0>>,    bits |-> 24],
       [ip |-> <<172, 17, 0, 0>>,   bits |-> 16],
       [ip |-> <<192, 168, 0, 0>>,  bits |-> 16],
       [ip |-> <<10, 0, 0, 0>>,     bits |-> 8],
       [ip |-> <<192, 168, 43, 0>>, bits |-> 24],
       [ip |-> <<172, 16, 44, 128>>, bits |-> 25] >>

RouteSet(k) == {RouteUniverse[i] : i \in 1..Min(k, Len(RouteUniverse))}

\* CheckRouteOverlaps(network) against the route table rt: an error when some
\* route contains the network's address or the network contains the route's
CheckRouteOverlaps(rt, network) ==
    IF \E r \in rt : NetContains(r, network.ip) \/ NetContains(network, r.ip)
    THEN "Network overlaps with an existing route"
    ELSE NoErr

\* --------------------------------------------------- getAvailableGwAddress
\* mutant: the loop keeps a candidate that overlaps
RECURSIVE GwLoopOverlap(_, _, _)
GwLoopOverlap(rt, i, n) ==
    IF i > Len(gatewayAddrs)
    THEN [gwaddr |-> EmptyStr, err |-> "No available GW address", checks |-> n]
    ELSE LET p == ParseCIDR(gatewayAddrs[i]) IN
         IF CheckRouteOverlaps(rt, p.net) # NoErr
         THEN [gwaddr |-> gatewayAddrs[i], err |-> NoErr, checks |-> n + 1]
         ELSE GwLoopOverlap(rt, i + 1, n + 1)

\* The loop over gatewayAddrs from index i on; n counts the calls made to
\* CheckRouteOverlaps so far.
RECURSIVE GwLoop(_, _, _)
GwLoop(rt, i, n) ==
    IF i > Len(gatewayAddrs)
    THEN [gwaddr |-> EmptyStr, err |-> "No available GW address", checks |-> n]
    ELSE LET p == ParseCIDR(gatewayAddrs[i]) IN
         IF p.err # NoErr
         THEN [gwaddr |-> EmptyStr, err |-> p.err, checks |-> n]
         ELSE IF CheckRouteOverlaps(rt, p.net) = NoErr
              THEN [gwaddr |-> gatewayAddrs[i], err |-> NoErr, checks |-> n + 1]
              ELSE GwLoop(rt, i + 1, n + 1)

\* With an explicit bridgeIP the function parses it, sets gwaddr and then
\* falls out of the if to the final return, which returns "" and an error.
getAvailableGwAddress(rt, bridgeIP) ==
    IF Len(bridgeIP) # 0
    THEN LET p == ParseCIDR(bridgeIP) IN
         IF p.err # NoErr
         THEN [gwaddr |-> EmptyStr, err |-> p.err, checks |-> 0]
         ELSE [gwaddr |-> EmptyStr, err |-> "No available GW address",
               checks |-> 0]
    ELSE GwLoop(rt, 1, 0)

\* --------------------------------------------------------- generateMacAddr
\* copy(dst, src) for a 4-byte destination: the first Min(4, Len(src)) bytes
Copy4(src) == [i \in 1..4 |-> IF i <= Len(src) THEN src[i] ELSE 0]

\* mutant: the address is copied from its second byte on
generateMacAddr_shift(ip) ==
    <<2, 66>> \o Copy4(IF To4(ip) = NilIP THEN NilIP ELSE Tail(To4(ip)))

generateMacAddr(ip) == <<2, 66>> \o Copy4(To4(ip))

\* =================================================================== state
VARIABLES
    ovs,        \* TRUE when init() got a session to the switch (ovs # nil)
    OvsBridge,  \* the package's Bridge: [IP, Subnet]; Name is defaultBridgeName
    routes,     \* the host's routes other than the bridge's connected route
    iface,      \* the bridge interface on the host: [exists, addrs, up]
    ports,      \* the ports of the bridge on the switch, in creation order
    rules,      \* how many times each of the three iptables rules was appended
    ipam,       \* the addresses the allocator has handed out and not got back
    conns,      \* the connections a caller holds: returned and not released
    th,         \* per caller: the call in progress and its locals
    res,        \* the call that has just returned: its locals, log and error
    ncalls,     \* calls started so far
    budget,     \* calls the behaviour may start
    crashed,    \* the process died of a panic
    lastOk,     \* OvsBridge as the latest successful CreateBridge left it
    fn          \* the pure functions' harness: [pc, in, out]

vars == <<ovs, OvsBridge, routes, iface, ports, rules, ipam, conns, th, res,
          ncalls, budget, crashed, lastOk, fn>>

\* the callers of the package: goroutines of the daemon
Procs == {1, 2}

\* ------------------------------------------------------------------ inputs
ExplicitCIDR == <<10, 1, 42, 1, 16>>
MalformedCIDR == <<10, 1, 42, 1, 33>>
BridgeIPs == {EmptyStr, ExplicitCIDR, MalformedCIDR}

\* the address a bridge interface left by an earlier run of the daemon has
ExistingAddr == [ip |-> <<10, 20, 30, 1>>, bits |-> 24]

PeerIPs == {<<10, 9, 0, 2>>, <<10, 9, 0, 3>>}

\* a port name: a prefix and what follows it; GenerateRandomName draws the
\* seven hex digits that follow "ovs", modelled as one token
PortName(prefix, id) == [prefix |-> prefix, id |-> id]
NoPort == PortName("", << >>)
RandomIds == {<<1>>, <<2>>}

NoConn == [Name |-> NoPort, Ip |-> EmptyStr, Subnet |-> EmptyStr,
           Mac |-> EmptyStr, Gateway |-> EmptyStr]

NoBridge == [IP |-> NilIP, Subnet |-> NilNet]

\* the routes CheckRouteOverlaps sees: the host's and, while the bridge
\* interface is up, the connected routes of its addresses
HostRoutes ==
    routes \cup (IF iface.exists /\ iface.up
                 THEN {[ip |-> MaskIP(iface.addrs[i].ip, iface.addrs[i].bits),
                        bits |-> iface.addrs[i].bits] : i \in 1..Len(iface.addrs)}
                 ELSE {})

\* one external operation of a call, as the call's log keeps it
Op(name, port, a) == [op |-> name, port |-> port, a |-> a]

\* A call's record.  Its locals: err, ifaceAddr, ifh (iface # nil), ipAddr,
\* ipNet, port, ip, conn.  What the checks need of its history: log (the
\* external operations it tried, in order), failed (some collaborator call
\* failed), pre/preIface/preOk/prePorts (OvsBridge, the interface, lastOk
\* and the switch's ports when it began), post (OvsBridge when it returned).
Idle == [pc |-> "idle", op |-> "none", arg |-> << >>, err |-> NoErr,
         log |-> << >>, ifaceAddr |-> EmptyStr, ifh |-> FALSE,
         ipAddr |-> NilIP, ipNet |-> NilNet, port |-> NoPort, ip |-> NilIP,
         conn |-> NoConn, failed |-> FALSE,
         pre |-> NoBridge, preIface |-> << >>, preOk |-> << >>,
         prePorts |-> << >>, post |-> NoBridge]

\* a call begins: the locals are fresh and what the call found is kept
Begin(p, op, arg) ==
    [Idle EXCEPT !.op = op, !.arg = arg, !.pre = OvsBridge,
                 !.preIface = <<iface>>, !.preOk = lastOk,
                 !.prePorts = ports]

\* A call takes the first caller that is free: callers differ in nothing
\* but the call they are in.
CanCall(p) ==
    /\ ~crashed
    /\ th[p].pc = "idle"
    /\ \A q \in Procs : q < p => th[q].pc # "idle"
    /\ ncalls < budget

Running(p, pc) == ~crashed /\ th[p].pc = pc

\* the call of p, with record r, goes on at pc; res holds a returned call
\* in the state it returned in only
Continue(p, r, pc) ==
    /\ th' = [th EXCEPT ![p] = [r EXCEPT !.pc = pc]]
    /\ res' = Idle

\* the call of p, with record r, returns err
Return(p, r, err) ==
    /\ th' = [th EXCEPT ![p] = Idle]
    /\ res' = [r EXCEPT !.pc = "ret", !.err = err, !.post = OvsBridge]

\* mutant: the session is not checked before the request is issued
Connected_unchecked == TRUE

\* Lines 133, 145, 153, 233, 247: ovs # nil
Connected == ovs

\* ============================================================ CreateBridge
\* Lines 86-90: the gateway is selected first, whatever the host holds.
CreateBridge(p, bridgeIP) ==
    /\ CanCall(p)
    /\ LET r == getAvailableGwAddress(HostRoutes, bridgeIP)
           b == Begin(p, "CreateBridge", bridgeIP)
       IN IF r.err # NoErr
          THEN Return(p, b, "Could not find a free IP address range")
          ELSE Continue(p, [b EXCEPT !.ifaceAddr = r.gwaddr], "cb_lookup")
    /\ ncalls' = ncalls + 1
    /\ UNCHANGED <<ovs, OvsBridge, routes, iface, ports, rules, ipam, conns,
                   budget, crashed, lastOk, fn>>

\* mutant: the bridge is taken to be missing whatever the lookup finds
IfaceMissing_always == TRUE

\* Line 93: iface == nil && err != nil
IfaceMissing == ~iface.exists

\* Lines 92-93, 101: net.InterfaceByName(OvsBridge.Name)
InterfaceByName(p) ==
    /\ Running(p, "cb_lookup")
    /\ IF IfaceMissing
       THEN Continue(p, th[p], "cb_create")
       ELSE Continue(p, [th[p] EXCEPT !.ifh = TRUE], "cb_getaddr")
    /\ UNCHANGED <<ovs, OvsBridge, routes, iface, ports, rules, ipam, conns,
                   ncalls, budget, crashed, lastOk, fn>>

\* Lines 94-96 and 132-142.  CreateOVSBridge's outcome is not looked at; when
\* the switch does create the bridge, its interface shows on the host.
createBridgeIface(p) ==
    /\ Running(p, "cb_create")
    /\ IF ~Connected
       THEN /\ Return(p, th[p], "OVS not connected")
            /\ UNCHANGED iface
       ELSE \E ok \in BOOLEAN :
            /\ iface' = IF ok THEN [iface EXCEPT !.exists = TRUE] ELSE iface
            /\ Continue(p, [th[p] EXCEPT
                              !.failed = @ \/ ~ok,
                              !.log = Append(@, Op("CreateOVSBridge", NoPort,
                                                   << >>))],
                        "cb_relookup")
    /\ UNCHANGED <<ovs, OvsBridge, routes, ports, rules, ipam, conns,
                   ncalls, budget, crashed, lastOk, fn>>

\* Lines 97-100: the second net.InterfaceByName
InterfaceByNameAgain(p) ==
    /\ Running(p, "cb_relookup")
    /\ IF iface.exists
       THEN Continue(p, [th[p] EXCEPT !.ifh = TRUE], "cb_parse")
       ELSE Return(p, th[p], "no such network interface")
    /\ UNCHANGED <<ovs, OvsBridge, routes, iface, ports, rules, ipam, conns,
                   ncalls, budget, crashed, lastOk, fn>>

\* GetIfaceAddr(name): the first address the interface has, an error when
\* it has none
GetIfaceAddr(ifc) ==
    IF ifc.exists /\ Len(ifc.addrs) > 0
    THEN [err |-> NoErr, addr |-> ifc.addrs[1]]
    ELSE [err |-> "Interface has no IP addresses", addr |-> ExistingAddr]

\* Lines 102-106: the existing interface's address replaces the selected
\* gateway
UseIfaceAddr(p) ==
    /\ Running(p, "cb_getaddr")
    /\ LET g == GetIfaceAddr(iface) IN
       IF g.err # NoErr
       THEN Return(p, th[p], g.err)
       ELSE Continue(p, [th[p] EXCEPT !.ifaceAddr =
                            AddrString(g.addr.ip, g.addr.bits)],
                     "cb_parse")
    /\ UNCHANGED <<ovs, OvsBridge, routes, iface, ports, rules, ipam, conns,
                   ncalls, budget, crashed, lastOk, fn>>

\* Lines 114-115: what OvsBridge becomes
BridgeOf(parsed) == [IP |-> parsed.ip, Subnet |-> parsed.net]

\* Lines 109-115: parse the address and write it to OvsBridge
AssignOvsBridge(p) ==
    /\ Running(p, "cb_parse")
    /\ LET parsed == ParseCIDR(th[p].ifaceAddr) IN
       IF parsed.err # NoErr
       THEN /\ UNCHANGED OvsBridge
            /\ Return(p, th[p], parsed.err)
       ELSE /\ OvsBridge' = BridgeOf(parsed)
            /\ Continue(p, [th[p] EXCEPT !.ipAddr = parsed.ip,
                                         !.ipNet = parsed.net],
                        "cb_addip")
    /\ UNCHANGED <<ovs, routes, iface, ports, rules, ipam, conns,
                   ncalls, budget, crashed, lastOk, fn>>

\* Lines 117-119: netlink.NetworkLinkAddIp's result is dropped; the if tests
\* the err ParseCIDR left, which is nil.  Adding an address the interface
\* has already fails.
NetworkLinkAddIp(p) ==
    /\ Running(p, "cb_addip")
    /\ \E ok \in BOOLEAN :
       LET a == [ip |-> th[p].ipAddr, bits |-> th[p].ipNet.bits]
           present == \E i \in 1..Len(iface.addrs) : iface.addrs[i] = a
           done == ok /\ ~present
           r == [th[p] EXCEPT !.failed = @ \/ ~ok,
                              !.log = Append(@, Op("NetworkLinkAddIp", NoPort,
                                                   AddrString(a.ip, a.bits)))]
       IN /\ iface' = IF done THEN [iface EXCEPT !.addrs = Append(@, a)]
                      ELSE iface
          /\ IF r.err # NoErr
             THEN Return(p, r, "Unable to add private network")
             ELSE Continue(p, r, "cb_up")
    /\ UNCHANGED <<ovs, OvsBridge, routes, ports, rules, ipam, conns,
                   ncalls, budget, crashed, lastOk, fn>>

\* Lines 120-122: netlink.NetworkLinkUp
NetworkLinkUp(p) ==
    /\ Running(p, "cb_up")
    /\ \E ok \in BOOLEAN :
       LET r == [th[p] EXCEPT !.failed = @ \/ ~ok,
                              !.log = Append(@, Op("NetworkLinkUp", NoPort,
                                                   << >>))]
       IN /\ iface' = IF ok THEN [iface EXCEPT !.up = TRUE] ELSE iface
          /\ IF ok THEN Continue(p, r, "cb_iptables")
             ELSE Return(p, r, "Unable to start network bridge")
    /\ UNCHANGED <<ovs, OvsBridge, routes, ports, rules, ipam, conns,
                   ncalls, budget, crashed, lastOk, fn>>

\* the log of the first k iptables rules tried
RuleLog(k) == [i \in 1..k |-> Op("iptables -A", NoPort, <<i>>)]

\* Lines 124-129 and 287-327: the three rules are appended in order; the
\* first that fails ends the call.  k of them are appended, and one more is
\* tried when k < 3.
setupIPTables(p) ==
    /\ Running(p, "cb_iptables")
    /\ \E k \in 0..3 :
       LET r == [th[p] EXCEPT !.failed = @ \/ (k < 3),
                              !.log = @ \o RuleLog(Min(k + 1, 3))]
       IN /\ rules' = [i \in 1..3 |-> IF i <= k THEN rules[i] + 1
                                      ELSE rules[i]]
          /\ Return(p, r, IF k = 3 THEN NoErr
                          ELSE "Unable to enable network bridge NAT")
          /\ lastOk' = IF k = 3 THEN <<OvsBridge>> ELSE lastOk
    /\ UNCHANGED <<ovs, OvsBridge, routes, iface, ports, ipam, conns,
                   ncalls, budget, crashed, fn>>

\* ========================================================== switch ports
\* addVxlanPort, AddInternalPort: one transaction that inserts the port into
\* the named bridge; the switch refuses a name it has (names are unique) and
\* a bridge it has not.  The callers do not look at the outcome.
AddPort(ps, name, type, remote) ==
    IF iface.exists /\ ~\E i \in 1..Len(ps) : ps[i].name = name
    THEN Append(ps, [name |-> name, type |-> type, remote |-> remote])
    ELSE ps

\* deletePort: removes the port of that name; a missing one is no error
DeletePort(ps, name) == SelectSeq(ps, LAMBDA x : x.name # name)

\* mutant: the tunnel port is named after the call, not after the peer
TunnelName_percall(peerIp) == PortName("vxlan-", <<ncalls>>)

\* Lines 148, 156: "vxlan-" + peerIp
TunnelName(peerIp) == PortName("vxlan-", peerIp)

\* Lines 144-150
AddPeer(p, peerIp) ==
    /\ CanCall(p)
    /\ LET b == Begin(p, "AddPeer", peerIp) IN
       IF ~Connected
       THEN /\ Return(p, b, "OVS not connected")
            /\ UNCHANGED ports
       ELSE /\ ports' = AddPort(ports, TunnelName(peerIp), "vxlan", peerIp)
            /\ Return(p, [b EXCEPT !.log = <<Op("addVxlanPort",
                                                TunnelName(peerIp), peerIp)>>],
                      NoErr)
    /\ ncalls' = ncalls + 1
    /\ UNCHANGED <<ovs, OvsBridge, routes, iface, rules, ipam, conns,
                   budget, crashed, lastOk, fn>>

\* Lines 152-158
DeletePeer(p, peerIp) ==
    /\ CanCall(p)
    /\ LET b == Begin(p, "DeletePeer", peerIp) IN
       IF ~Connected
       THEN /\ Return(p, b, "OVS not connected")
            /\ UNCHANGED ports
       ELSE /\ ports' = DeletePort(ports, TunnelName(peerIp))
            /\ Return(p, [b EXCEPT !.log = <<Op("deletePort",
                                                TunnelName(peerIp), << >>)>>],
                      NoErr)
    /\ ncalls' = ncalls + 1
    /\ UNCHANGED <<ovs, OvsBridge, routes, iface, rules, ipam, conns,
                   budget, crashed, lastOk, fn>>

\* mutant: deleting the port also gives its connection's address back to the
\* allocator
DeleteConnection_releases(p, portName) ==
    /\ CanCall(p)
    /\ LET b == Begin(p, "DeleteConnection", portName.id) IN
       IF ~Connected
       THEN /\ Return(p, b, "OVS not connected")
            /\ UNCHANGED <<ports, conns, ipam>>
       ELSE /\ ports' = DeletePort(ports, portName)
            /\ conns' = {c \in conns : c.Name # portName}
            /\ ipam' = ipam \ {c.Ip : c \in {d \in conns : d.Name = portName}}
            /\ Return(p, [b EXCEPT !.log = <<Op("deletePort", portName,
                                                << >>)>>],
                      NoErr)
    /\ ncalls' = ncalls + 1
    /\ UNCHANGED <<ovs, OvsBridge, routes, iface, rules,
                   budget, crashed, lastOk, fn>>

\* Lines 232-238.  The caller's connections of that port are gone with it.
DeleteConnection(p, portName) ==
    /\ CanCall(p)
    /\ LET b == Begin(p, "DeleteConnection", portName.id) IN
       IF ~Connected
       THEN /\ Return(p, b, "OVS not connected")
            /\ UNCHANGED <<ports, conns>>
       ELSE /\ ports' = DeletePort(ports, portName)
            /\ conns' = {c \in conns : c.Name # portName}
            /\ Return(p, [b EXCEPT !.log = <<Op("deletePort", portName,
                                                << >>)>>],
                      NoErr)
    /\ ncalls' = ncalls + 1
    /\ UNCHANGED <<ovs, OvsBridge, routes, iface, rules, ipam,
                   budget, crashed, lastOk, fn>>

\* =========================================================== AddConnection
NsPids == {7}

\* the allocator's addresses of a subnet: its first PoolSize host addresses
Pool(subnet) == {[subnet.ip EXCEPT ![4] = k] : k \in 1..PoolSize}

\* ipam.Request(subnet): an address of the subnet that is not handed out,
\* or nil when it has none to give
Request(subnet) == (Pool(subnet) \ ipam) \cup {NilIP}

\* Line 192: the last three characters of the subnet's text, "/16" of
\* "10.1.0.0/16" and "0/8" of "10.0.0.0/8"
SubnetPrefix(subnet) ==
    IF subnet.bits >= 10 THEN <<subnet.bits>>
    ELSE <<subnet.ip[4], subnet.bits>>

\* Lines 196-223: the interface operations before the default route, in the
\* order the call makes them
KernelSteps ==
    <<"SetMtu", "InterfaceUp", "SetInterfaceInNamespacePid", "InterfaceDown",
      "ChangeInterfaceName", "SetInterfaceIp", "SetInterfaceMac",
      "InterfaceUp">>

\* mutant: the hardware address set on the interface is the bridge's
KernelArg_bridgeMac(k, nspid, ip) ==
    CASE k = 1 -> <<mtu>>
      [] k = 3 -> <<nspid>>
      [] k = 6 -> IPString(ip)
      [] k = 7 -> generateMacAddr(OvsBridge.IP)
      [] OTHER -> << >>

\* what step k hands to the kernel besides the port name
KernelArg(k, nspid, ip) ==
    CASE k = 1 -> <<mtu>>
      [] k = 3 -> <<nspid>>
      [] k = 6 -> IPString(ip)
      [] k = 7 -> generateMacAddr(ip)
      [] OTHER -> << >>

\* the log of the first k interface operations
KernelLog(k, port, nspid, ip) ==
    [i \in 1..k |-> Op(KernelSteps[i], port, KernelArg(i, nspid, ip))]

\* the kernel cannot do step i: the text "<nil>" is no address to assign
Impossible(i, ip) == i = 6 /\ ip = NilIP

\* mutant: a failure to assign the address does not end the call
EndsCall_ipIgnored(i) == i # 6

\* Lines 196-225: the error of step i ends the call (each is tested)
EndsCall(i) == TRUE

\* Where the call ends when the kernel does the first k steps and fails the
\* next: the first failed step whose error ends the call, 0 when none does.
FirstEnd(k, ip) ==
    LET F == {i \in 1..Len(KernelSteps) :
                 (i = k + 1 \/ Impossible(i, ip)) /\ EndsCall(i)}
    IN IF F = {} THEN 0 ELSE CHOOSE i \in F : \A j \in F : i <= j

\* Lines 188-194: the record handed back
Connection(portName, ip) ==
    [Name |-> portName, Ip |-> IPString(ip),
     Subnet |-> SubnetPrefix(OvsBridge.Subnet),
     Mac |-> generateMacAddr(ip),
     Gateway |-> IPString(OvsBridge.IP)]

\* Lines 168-183 and 242-254: the port is named at random and requested from
\* the switch.  id = << >> stands for a failed read of the random source.
AddConnection(p, nspid, id) ==
    /\ CanCall(p)
    /\ LET b == Begin(p, "AddConnection", <<nspid>>)
           port == PortName("ovs", id)
       IN IF defaultBridgeName = ""
          THEN /\ Return(p, b, "bridge is not available")
               /\ UNCHANGED ports
          ELSE IF id = << >>
          THEN /\ Return(p, b, "unexpected EOF")
               /\ UNCHANGED ports
          ELSE IF ~Connected
          THEN /\ Return(p, b, "OVS not connected")
               /\ UNCHANGED ports
          ELSE /\ ports' = AddPort(ports, port, "internal", << >>)
               /\ Continue(p, [b EXCEPT !.port = port,
                                        !.failed = ports' = ports,
                                        !.log = <<Op("AddInternalPort", port,
                                                     << >>)>>],
                           "ac_request")
    /\ ncalls' = ncalls + 1
    /\ UNCHANGED <<ovs, OvsBridge, routes, iface, rules, ipam, conns,
                   budget, crashed, lastOk, fn>>

\* Lines 185-194: after the sleep an address is requested for the subnet
\* OvsBridge.Subnet points to; a nil pointer there is a panic.
RequestAddress(p) ==
    /\ Running(p, "ac_request")
    /\ IF OvsBridge.Subnet = NilNet
       THEN /\ crashed' = TRUE
            /\ Continue(p, th[p], "panic")
            /\ UNCHANGED ipam
       ELSE \E ip \in Request(OvsBridge.Subnet) :
            /\ ipam' = ipam \cup ({ip} \ {NilIP})
            /\ Continue(p, [th[p] EXCEPT
                              !.ip = ip,
                              !.failed = @ \/ ip = NilIP,
                              !.conn = Connection(th[p].port, ip),
                              !.log = Append(@, Op("ipam.Request", NoPort,
                                                   IPString(ip)))],
                        "ac_config")
            /\ UNCHANGED crashed
    /\ UNCHANGED <<ovs, OvsBridge, routes, iface, ports, rules, conns,
                   ncalls, budget, lastOk, fn>>

\* Lines 196-225: the interface operations on the call's own port, in order;
\* a step that fails ends the call.  The kernel does the first k and fails
\* the next.
ConfigureInterface(p) ==
    /\ Running(p, "ac_config")
    /\ \E k \in 0..Len(KernelSteps) :
       LET n == Len(KernelSteps)
           end == FirstEnd(k, th[p].ip)
           r == [th[p] EXCEPT
                   !.failed = @ \/ k < n \/ Impossible(6, th[p].ip),
                   !.log = @ \o KernelLog(IF end = 0 THEN n ELSE end,
                                          th[p].port, th[p].arg[1], th[p].ip)]
       IN IF end # 0
          THEN Return(p, r, KernelSteps[end])
          ELSE Continue(p, r, "ac_gateway")
    /\ UNCHANGED <<ovs, OvsBridge, routes, iface, ports, rules, ipam, conns,
                   ncalls, budget, crashed, lastOk, fn>>

\* Lines 226-229: the default route through OvsBridge.IP as it is now, and
\* the connection is handed back
SetDefaultGateway(p) ==
    /\ Running(p, "ac_gateway")
    /\ \E ok \in BOOLEAN :
       LET r == [th[p] EXCEPT
                   !.failed = @ \/ ~ok,
                   !.log = Append(@, Op("SetDefaultGateway", th[p].port,
                                        IPString(OvsBridge.IP)))]
       IN /\ Return(p, r, IF ok THEN NoErr ELSE "SetDefaultGateway")
          /\ conns' = IF ok THEN conns \cup {th[p].conn} ELSE conns
    /\ UNCHANGED <<ovs, OvsBridge, routes, iface, ports, rules, ipam,
                   ncalls, budget, crashed, lastOk, fn>>

\* The calling layer gives an address back to the allocator (ipam.Release)
\* once no connection it holds and no call in progress uses it.
ReleaseAddress(a) ==
    /\ ~crashed
    /\ a \in ipam
    /\ \A c \in conns : c.Ip # a
    /\ \A q \in Procs : th[q].ip # a
    /\ ipam' = ipam \ {a}
    /\ res' = Idle
    /\ UNCHANGED <<ovs, OvsBridge, routes, iface, ports, rules, conns, th,
                   ncalls, budget, crashed, lastOk, fn>>

\* ====================================================== the specification
NoIface == [exists |-> FALSE, addrs |-> << >>, up |-> FALSE]
InitIfaces ==
    {NoIface,
     [exists |-> TRUE, addrs |-> << >>, up |-> FALSE],
     [exists |-> TRUE, addrs |-> <<ExistingAddr>>, up |-> TRUE]}

\* no route in the candidates' way, or every candidate's range taken
InitRoutes == {{}, RouteSet(7)}

FnOff == [pc |-> "off", in |-> << >>, out |-> << >>]

InitSys ==
    /\ OvsBridge = NoBridge
    /\ ports = << >>
    /\ rules = <<0, 0, 0>>
    /\ ipam = {}
    /\ conns = {}
    /\ th = [p \in Procs |-> Idle]
    /\ res = Idle
    /\ ncalls = 0
    /\ crashed = FALSE
    /\ lastOk = << >>

Init ==
    /\ ovs \in BOOLEAN
    /\ routes \in InitRoutes
    /\ iface \in InitIfaces
    /\ budget = MaxCalls
    /\ InitSys
    /\ fn = FnOff

\* the steps of the calls in progress
Steps(p) ==
    \/ InterfaceByName(p)
    \/ createBridgeIface(p)
    \/ InterfaceByNameAgain(p)
    \/ UseIfaceAddr(p)
    \/ AssignOvsBridge(p)
    \/ NetworkLinkAddIp(p)
    \/ NetworkLinkUp(p)
    \/ setupIPTables(p)
    \/ RequestAddress(p)
    \/ ConfigureInterface(p)
    \/ SetDefaultGateway(p)

\* One caller: every call returns before the next begins.
Next ==
    \/ \E bridgeIP \in BridgeIPs : CreateBridge(1, bridgeIP)
    \/ Steps(1)
    \/ \E peerIp \in PeerIPs : AddPeer(1, peerIp)
    \/ \E peerIp \in PeerIPs : DeletePeer(1, peerIp)
    \/ \E nspid \in NsPids, id \in RandomIds \cup {<< >>} :
           AddConnection(1, nspid, id)
    \/ \E id \in RandomIds : DeleteConnection(1, PortName("ovs", id))
    \/ \E a \in ipam : ReleaseAddress(a)

Spec == Init /\ [][Next]_vars

\* the host and the package once CreateBridge("") has succeeded on a host
\* with no bridge interface and no route in the candidates' way
Established ==
    /\ iface = [exists |-> TRUE, up |-> TRUE,
                addrs |-> <<[ip |-> <<10, 1, 42, 1>>, bits |-> 16]>>]
    /\ OvsBridge = BridgeOf(ParseCIDR(gatewayAddrs[1]))
    /\ rules = <<1, 1, 1>>
    /\ lastOk = <<OvsBridge>>

Fresh ==
    /\ iface = NoIface
    /\ OvsBridge = NoBridge
    /\ rules = <<0, 0, 0>>
    /\ lastOk = << >>

\* Two callers at once, on a host with the switch connected, before the
\* bridge is there or after CreateBridge has set it up.
InitPar ==
    /\ ovs = TRUE
    /\ routes = {}
    /\ Fresh \/ Established
    /\ ports = << >>
    /\ ipam = {}
    /\ conns = {}
    /\ th = [p \in Procs |-> Idle]
    /\ res = Idle
    /\ ncalls = 0
    /\ crashed = FALSE
    /\ budget = MaxParCalls
    /\ fn = FnOff

NextPar ==
    \/ \E p \in Procs : CreateBridge(p, EmptyStr)
    \/ \E p \in Procs : Steps(p)
    \/ \E p \in Procs, nspid \in NsPids, id \in RandomIds :
           AddConnection(p, nspid, id)
    \/ \E p \in Procs, id \in RandomIds :
           DeleteConnection(p, PortName("ovs", id))
    \/ \E a \in ipam : ReleaseAddress(a)

SpecPar == InitPar /\ [][NextPar]_vars

\* ================================================ the pure functions alone
\* The package at rest on a host with no bridge interface.
AtRest ==
    /\ ovs = TRUE
    /\ Fresh
    /\ ports = << >>
    /\ ipam = {}
    /\ conns = {}
    /\ th = [p \in Procs |-> Idle]
    /\ res = Idle
    /\ ncalls = 0
    /\ crashed = FALSE
    /\ budget = 0

sysvars == <<ovs, OvsBridge, routes, iface, ports, rules, ipam, conns, th,
             res, ncalls, budget, crashed, lastOk>>

\* ---- getAvailableGwAddress over route tables and arguments
GwInputs ==
    {EmptyStr, ExplicitCIDR, <<192, 168, 50, 1, 24>>, <<172, 16, 44, 129, 25>>,
     MalformedCIDR, <<10, 1, 42>>}

InitGw ==
    /\ AtRest
    /\ routes \in SUBSET RouteSet(NumRoutes)
    /\ fn \in {[pc |-> "in", in |-> b, out |-> << >>] : b \in GwInputs}

GwCall ==
    /\ fn.pc = "in"
    /\ fn' = [fn EXCEPT !.pc = "out",
                        !.out = getAvailableGwAddress(HostRoutes, fn.in)]
    /\ UNCHANGED sysvars

NextGw == GwCall

SpecGw == InitGw /\ [][NextGw]_vars

\* ---- generateMacAddr over pairs of addresses
ByteSamples == <<0, 255, 1, 128, 42, 66>>
Bytes == {ByteSamples[i] : i \in 1..Min(NumBytes, Len(ByteSamples))}

\* the 16-byte form of an IPv4 address
Mapped(ip4) == <<0, 0, 0, 0, 0, 0, 0, 0, 0, 0, 255, 255>> \o ip4

\* 4-byte addresses, some of them in 16-byte form, an IPv6 address and nil
MacInputs ==
    LET ip4 == {<<a, b, c, d>> : a \in Bytes, b \in Bytes, c \in Bytes,
                                 d \in Bytes}
    IN ip4 \cup {Mapped(<<a, a, 1, a>>) : a \in Bytes}
           \cup {<<32, 1, 13, 184, 0, 0, 0, 0, 0, 0, 0, 0, 0, 0, 0, 1>>, NilIP}

InitMac ==
    /\ AtRest
    /\ routes = {}
    /\ fn \in {[pc |-> "in", in |-> <<x, y>>, out |-> << >>] :
                  x \in MacInputs, y \in MacInputs}

MacCall ==
    /\ fn.pc = "in"
    /\ fn' = [fn EXCEPT !.pc = "out",
                        !.out = <<generateMacAddr(fn.in[1]),
                                  generateMacAddr(fn.in[2])>>]
    /\ UNCHANGED sysvars

NextMac == MacCall

SpecMac == InitMac /\ [][NextMac]_vars

\* ================================================================== claims
\* the candidates of gatewayAddrs that the overlap checker lets through
FreeCandidates ==
    {i \in 1..Len(gatewayAddrs) :
        CheckRouteOverlaps(HostRoutes, ParseCIDR(gatewayAddrs[i]).net) = NoErr}

\* C1 (as claimed): called with an explicit CIDR that parses, the gateway
\* selection returns exactly that CIDR and no error, without a call to the
\* route-overlap checker.
C1_ExplicitReturned ==
    (fn.pc = "out" /\ Len(fn.in) # 0 /\ ParseCIDR(fn.in).err = NoErr)
        => /\ fn.out.gwaddr = fn.in
           /\ fn.out.err = NoErr
           /\ fn.out.checks = 0

\* C2: called with no explicit CIDR, the gateway selection returns the first
\* candidate of the list, in list order, that the overlap checker lets
\* through, with no error; when every candidate overlaps it returns an error
\* and no CIDR.
C2_FirstFreeCandidate ==
    (fn.pc = "out" /\ fn.in = EmptyStr)
        => IF FreeCandidates = {}
           THEN fn.out.err # NoErr /\ fn.out.gwaddr = EmptyStr
           ELSE /\ fn.out.err = NoErr
                /\ \E i \in FreeCandidates :
                      /\ \A j \in FreeCandidates : i <= j
                      /\ fn.out.gwaddr = gatewayAddrs[i]

\* C2's case: the first six candidates overlap, the seventh does not, and
\* the seventh is what was returned.
C2_Witness ==
    /\ fn.pc = "out" /\ fn.in = EmptyStr
    /\ \A i \in 1..6 : i \notin FreeCandidates
    /\ 7 \in FreeCandidates
    /\ fn.out.gwaddr = <<10, 0, 43, 1, 24>>
    /\ fn.out.err = NoErr

\* C7: for every valid IPv4 address the derived hardware address has the low
\* bit of its first byte clear and the second-lowest set, 0x42 as its second
\* byte and the address's four bytes as its last four; distinct addresses
\* give distinct hardware addresses.
C7_MacOfAddress ==
    fn.pc = "out" =>
        /\ \A i \in 1..2 :
              To4(fn.in[i]) # NilIP =>
                 /\ Len(fn.out[i]) = 6
                 /\ fn.out[i][1] % 2 = 0
                 /\ (fn.out[i][1] \div 2) % 2 = 1
                 /\ fn.out[i][2] = 66
                 /\ SubSeq(fn.out[i], 3, 6) = To4(fn.in[i])
        /\ (To4(fn.in[1]) # NilIP /\ To4(fn.in[2]) # NilIP
              /\ To4(fn.in[1]) # To4(fn.in[2]))
               => fn.out[1] # fn.out[2]

\* C7's case: two distinct addresses, one of them in 16-byte form, and
\* their hardware addresses.
C7_Witness ==
    /\ fn.pc = "out"
    /\ fn.in[1] = <<255, 0, 1, 255>>
    /\ fn.in[2] = Mapped(<<255, 255, 1, 255>>)
    /\ fn.out[1] = <<2, 66, 255, 0, 1, 255>>
    /\ fn.out[2] = <<2, 66, 255, 255, 1, 255>>

\* ---- the calls of the package
Returned(op) == res.pc = "ret" /\ res.op = op

\* the interface as the returned call found it
Found == res.preIface[1]

HasOp(log, name) == \E i \in 1..Len(log) : log[i].op = name

\* C3 (as claimed): with no bridge interface yet, the switch connected and
\* every collaborator call succeeding, CreateBridge with a well-formed
\* explicit CIDR succeeds and leaves OvsBridge with the CIDR's host address
\* and its network (10.1.42.1/16: 10.1.42.1 and 10.1.0.0/16).
C3_ExplicitBridge ==
    (/\ Returned("CreateBridge")
     /\ Len(res.arg) # 0 /\ WellFormedCIDR(res.arg)
     /\ ~Found.exists /\ ovs /\ ~res.failed)
        => /\ res.err = NoErr
           /\ res.post.IP = SubSeq(res.arg, 1, 4)
           /\ res.post.Subnet = [ip |-> MaskIP(SubSeq(res.arg, 1, 4), res.arg[5]),
                                 bits |-> res.arg[5]]

\* C4: a CreateBridge call that succeeds after an earlier one succeeded
\* leaves OvsBridge's address and subnet as the earlier one left them, and
\* asks the switch for no bridge.
C4_Idempotent ==
    (Returned("CreateBridge") /\ res.err = NoErr /\ res.preOk # << >>)
        => /\ res.post = res.preOk[1]
           /\ ~HasOp(res.log, "CreateOVSBridge")

\* C4's case: the second successful call on a host where the first one
\* created the bridge.
C4_Witness ==
    /\ Returned("CreateBridge") /\ res.err = NoErr
    /\ res.preOk # << >>
    /\ res.post.IP = <<10, 1, 42, 1>>
    /\ res.post.Subnet = [ip |-> <<10, 1, 0, 0>>, bits |-> 16]
    /\ rules = <<2, 2, 2>>

\* C5 (as claimed): when the bridge interface is on the host with an address,
\* CreateBridge resolves OvsBridge to that address whatever the bridgeIP
\* argument and whatever the gateway selection would give.
C5_ExistingWins ==
    (/\ Returned("CreateBridge")
     /\ Found.exists /\ Len(Found.addrs) > 0
     /\ ~res.failed)
        => /\ res.err = NoErr
           /\ res.post.IP = Found.addrs[1].ip
           /\ res.post.Subnet = [ip |-> MaskIP(Found.addrs[1].ip,
                                               Found.addrs[1].bits),
                                 bits |-> Found.addrs[1].bits]

C8_ConnectionFields ==
    (Returned("AddConnection") /\ res.err = NoErr)
        => /\ res.conn.Gateway = IPString(res.post.IP)
           /\ res.conn.Ip = IPString(res.ip)
           /\ res.conn.Mac = generateMacAddr(res.ip)
           /\ SubSeq(res.conn.Mac, 3, 6) = res.conn.Ip
           /\ \E i \in 1..Len(res.log) :
                 res.log[i] = Op("SetInterfaceIp", res.conn.Name, res.conn.Ip)
           /\ \E i \in 1..Len(res.log) :
                 res.log[i] = Op("SetInterfaceMac", res.conn.Name, res.conn.Mac)
           /\ \A i \in 1..Len(res.log) :
                 /\ res.log[i].op = "SetInterfaceIp" => res.log[i].a = res.conn.Ip
                 /\ res.log[i].op = "SetInterfaceMac" => res.log[i].a = res.conn.Mac
                 /\ res.log[i].op = "SetDefaultGateway"
                       => res.log[i].a = res.conn.Gateway

\* C8's case: one AddConnection has succeeded on the bridge 10.1.42.1/16.
C8_Witness ==
    /\ Returned("AddConnection") /\ res.err = NoErr
    /\ res.conn.Gateway = <<10, 1, 42, 1>>
    /\ res.conn.Ip = <<10, 1, 0, 2>>
    /\ res.conn.Mac = <<2, 66, 10, 1, 0, 2>>
    /\ res.conn \in conns

\* the tunnel ports to a peer on the bridge
Tunnels(peerIp) ==
    {i \in 1..Len(ports) : ports[i].type = "vxlan" /\ ports[i].remote = peerIp}

\* C9: with the switch connected, AddPeer returns no error, the second one
\* for a peer included, and leaves exactly one tunnel port for the peer on
\* the bridge; DeletePeer returns no error, for a peer never added too; and
\* there is never more than one tunnel port per peer.
C9_OneTunnelPerPeer ==
    /\ (Returned("AddPeer") /\ ovs) => res.err = NoErr
    /\ (Returned("AddPeer") /\ ovs /\ Found.exists)
          => Cardinality(Tunnels(res.arg)) = 1
    /\ (Returned("DeletePeer") /\ ovs)
          => res.err = NoErr /\ Tunnels(res.arg) = {}
    /\ \A peerIp \in PeerIPs : Cardinality(Tunnels(peerIp)) <= 1

\* C9's case: AddPeer has returned for a peer whose tunnel port was there
\* when it was called.
C9_Witness ==
    /\ Returned("AddPeer") /\ res.err = NoErr
    /\ \E i \in 1..Len(res.prePorts) :
          res.prePorts[i].type = "vxlan" /\ res.prePorts[i].remote = res.arg
    /\ Cardinality(Tunnels(res.arg)) = 1

\* C10: with no session to the switch, AddPeer, DeletePeer, DeleteConnection
\* and AddConnection, and a CreateBridge that finds no bridge interface,
\* return an error without a request to the switch, an address allocated or
\* an interface operation.
C10_NoSession ==
    ~ovs =>
        /\ (/\ res.pc = "ret"
            /\ \/ res.op \in {"AddPeer", "DeletePeer", "DeleteConnection",
                              "AddConnection"}
               \/ res.op = "CreateBridge" /\ ~Found.exists)
              => res.err # NoErr /\ res.log = << >>
        /\ ipam = {}
        /\ ports = << >>
        /\ ~iface.exists => iface = NoIface

\* C10's case: AddConnection has returned for want of a session.
C10_Witness ==
    /\ ~ovs
    /\ Returned("AddConnection")
    /\ res.err = "OVS not connected"
    /\ ncalls = 3

\* the callers that are inside CreateBridge
InCreateBridge ==
    {p \in Procs : th[p].op = "CreateBridge" /\ th[p].pc # "idle"}

\* C11 (as claimed): calls of CreateBridge exclude one another: no two
\* callers are inside it at once, so the bridge is requested from the switch
\* by one call at most while the interface is missing and no gateway is
\* selected while another call is changing the bridge.
C11_MutualExclusion == Cardinality(InCreateBridge) <= 1

\* C12: once a CreateBridge call has succeeded, OvsBridge's address and
\* subnet are the same in every later state, whatever calls follow.
C12_BridgeImmutable == [][lastOk # << >> => OvsBridge' = OvsBridge]_vars

\* C12's case: after a successful CreateBridge a later call has written
\* OvsBridge again, from the address it read off the interface.
C12_Witness ==
    /\ lastOk # << >>
    /\ th[1].op = "CreateBridge" /\ th[1].pc = "cb_addip"
    /\ th[1].preOk # << >>
    /\ th[1].ifaceAddr = <<10, 1, 42, 1, 16>>
    /\ OvsBridge.IP = <<10, 1, 42, 1>>

\* the operations AddConnection makes after the address request
AfterRequest ==
    {KernelSteps[i] : i \in 1..Len(KernelSteps)} \cup {"SetDefaultGateway"}

\* C13 (as claimed): when the allocator has no address to give,
\* AddConnection returns an error and makes none of the interface
\* operations or the default route that follow the request.
C13_AllocationFailureEnds ==
    (/\ Returned("AddConnection")
     /\ HasOp(res.log, "ipam.Request") /\ res.ip = NilIP)
        => /\ res.err # NoErr
           /\ \A i \in 1..Len(res.log) : res.log[i].op \notin AfterRequest

\* C14 (as claimed): on a host whose bridge interface is there without an
\* address (a call created it and failed before addressing it), a
\* CreateBridge call whose collaborators all succeed, with a free candidate
\* range to select, succeeds and leaves OvsBridge resolved.
C14_PartialRecoverable ==
    (/\ Returned("CreateBridge") /\ res.arg = EmptyStr
     /\ Found.exists /\ Len(Found.addrs) = 0
     /\ routes = {} /\ ~res.failed)
        => /\ res.err = NoErr
           /\ res.post.IP # NilIP /\ res.post.Subnet # NilNet

\* the external operations of AddConnection, in the order of the code
ProvisionOps ==
    <<"AddInternalPort", "ipam.Request">> \o KernelSteps
        \o <<"SetDefaultGateway">>

OpNames(log) == [i \in 1..Len(log) |-> log[i].op]

IsPrefix(s, t) == Len(s) <= Len(t) /\ s = SubSeq(t, 1, Len(s))

\* the switch refused the port the returned AddConnection asked for: the
\* bridge was not there, or a port of that name was
PortRefused ==
    \/ ~Found.exists
    \/ \E i \in 1..Len(res.prePorts) : res.prePorts[i].name = res.port

\* C15 (as claimed): the external operations of an AddConnection call are a
\* prefix of the fixed sequence (port creation, address request, the eight
\* interface operations, default route); the prefix ends at the first
\* operation that fails and an error is returned; nothing is undone (no port
\* is deleted, the requested address stays allocated).
C15_PrefixEndsAtFirstFailure ==
    Returned("AddConnection") =>
        /\ IsPrefix(OpNames(res.log), ProvisionOps)
        /\ res.failed => res.err # NoErr
        /\ (Len(res.log) >= 1 /\ PortRefused) => Len(res.log) = 1
        /\ (Len(res.log) >= 2 /\ res.ip = NilIP) => Len(res.log) = 2
        /\ \A i \in 1..Len(res.log) : res.log[i].op # "deletePort"
        /\ res.ip # NilIP => res.ip \in ipam

\* the address the returned CreateBridge resolved is on the interface
AddressAssigned ==
    \E i \in 1..Len(iface.addrs) :
        iface.addrs[i] = [ip |-> res.ipAddr, bits |-> res.ipNet.bits]

\* C16 (as claimed): a CreateBridge call whose assignment of the resolved
\* address to the interface failed returns an error, without bringing the
\* link up or installing a firewall rule.
C16_AssignFailureSurfaced ==
    (/\ Returned("CreateBridge")
     /\ HasOp(res.log, "NetworkLinkAddIp") /\ ~AddressAssigned)
        => /\ res.err # NoErr
           /\ ~HasOp(res.log, "NetworkLinkUp")
           /\ ~HasOp(res.log, "iptables -A")

\* C17 (as claimed): a CreateBridge call that returns an error leaves
\* OvsBridge's address and subnet as they were when it was called.
C17_BridgeWrittenLast ==
    (Returned("CreateBridge") /\ res.err # NoErr) => res.post = res.pre

\* C18 (as claimed): over any sequence of CreateBridge calls each of the
\* three firewall rules is appended once at most.
C18_RulesOnce == \A i \in 1..3 : rules[i] <= 1

\* the ports of ps other than the one named name
OtherPorts(ps, name) == SelectSeq(ps, LAMBDA x : x.name # name)

\* C19: a DeleteConnection call leaves the allocator's addresses as they
\* were (the connection's address stays allocated), and OvsBridge, the
\* bridge interface, the firewall rules and every port but the named one;
\* with the switch connected the named port is gone when it returns, and the
\* deletion is the one request it makes.
C19_ReleaseFrame ==
    [][(res'.pc = "ret" /\ res'.op = "DeleteConnection") =>
          LET name == PortName("ovs", res'.arg) IN
          /\ ipam' = ipam
          /\ OvsBridge' = OvsBridge
          /\ iface' = iface
          /\ rules' = rules
          /\ OtherPorts(ports', name) = OtherPorts(ports, name)
          /\ ovs => /\ res'.err = NoErr
                    /\ ports' = OtherPorts(ports, name)
                    /\ res'.log = <<Op("deletePort", name, << >>)>>]_vars

\* C19's case: the port of a connection that AddConnection handed back has
\* been deleted, and its address is still allocated.
C19_Witness ==
    /\ Returned("DeleteConnection") /\ res.err = NoErr
    /\ res.prePorts = <<[name |-> PortName("ovs", res.arg),
                         type |-> "internal", remote |-> << >>]>>
    /\ ports = << >>
    /\ conns = {}
    /\ ipam = {<<10, 1, 0, 1>>}

\* C20 (as claimed): an AddConnection call that gets to the address request
\* finds OvsBridge's address and subnet set, by a CreateBridge call that
\* succeeded; before that the call returns an error and neither creates a
\* port nor reads the unset subnet.
C20_BridgeResolved ==
    \A p \in Procs :
        th[p].pc \in {"ac_request", "panic"}
            => /\ lastOk # << >>
               /\ OvsBridge.IP # NilIP /\ OvsBridge.Subnet # NilNet
====
